---- MODULE Spec2Model ----
(***************************************************************************)
(* State-machine model of streamlit_app.py: the STEMI post-PCI 3-year      *)
(* mortality form.  One script run loads three artifacts (classifier,      *)
(* scaler, feature list), renders the input form and, when the form was    *)
(* submitted, normalizes the inputs, assembles the feature vector, scales  *)
(* it, scores it, classifies the risk and builds the advisory list.        *)
(*                                                                         *)
(* Conventions                                                             *)
(*  - A Python str is a tuple of tokens (words, " ", "_", "\n"), so that   *)
(*    strip() and replace(" ", "_") are computed and not assumed.          *)
(*  - A Python dict is the tuple of its <<key, value>> items in insertion  *)
(*    order.                                                               *)
(*  - A form value is [int |-> n] or [str |-> label] (isinstance(v, str)). *)
(*  - A float cell of the DataFrame is the fraction [num, den]; den = 0    *)
(*    is NaN.  A probability is an integer number of millionths.           *)
(***************************************************************************)
EXTENDS Integers, Sequences, FiniteSets, TLC

VARIABLES
    disk,           \* the three artifact files; the script never writes them
    model,          \* module globals bound by the loading block (lines 15-28)
    scaler,
    features,
    pc,             \* "load" / "submit": a script run is pending; "idle": page rendered
    page,           \* what the last script run put on the page
    inputs,         \* the dict built by the form (lines 153-168)
    input_data,     \* lines 176-191
    df,             \* line 198
    df_scaled,      \* line 204; the vector handed to predict_proba
    model_called,   \* predict_proba was entered in this run
    prob,           \* line 207
    risk_status,    \* line 208
    color,          \* line 209
    risk_message,   \* line 212
    abnormal_vars,  \* line 215
    advice,         \* line 216
    ref,            \* history: the first successful score call of SpecScore
    failed_since    \* history: a score call failed after ref was recorded

vars == <<disk, model, scaler, features, pc, page, inputs, input_data, df,
          df_scaled, model_called, prob, risk_status, color, risk_message,
          abnormal_vars, advice, ref, failed_since>>

run_locals == <<inputs, input_data, df, df_scaled, model_called, prob,
                risk_status, color, risk_message, abnormal_vars, advice>>

(***************************************************************************)
(* Bounds of the model.                                                    *)
(***************************************************************************)
\* slider positions within Margin of every threshold the code compares with
Margin == 1
\* number of key orders (rotations of the form's order) a raw input map takes
NumOrders == 3

(***************************************************************************)
(* Strings.                                                                *)
(***************************************************************************)
Whitespace == {" ", "\n"}

RECURSIVE lstrip(_)
lstrip(s) ==
    IF s # <<>> /\ Head(s) \in Whitespace THEN lstrip(Tail(s)) ELSE s

RECURSIVE rstrip(_)
rstrip(s) ==
    IF s # <<>> /\ s[Len(s)] \in Whitespace
    THEN rstrip(SubSeq(s, 1, Len(s) - 1))
    ELSE s

\* str.strip()
strip(s) == rstrip(lstrip(s))

\* str.replace(" ", "_")
replace_space(s) == [i \in 1..Len(s) |-> IF s[i] = " " THEN "_" ELSE s[i]]

\* display names, the keys of inputs (lines 156-168)
D_Age == <<"Age">>
D_Hb == <<"Hb">>
D_AST == <<"AST">>
D_Resp == <<"Respiratory", " ", "support">>
D_Beta == <<"Beta", " ", "blocker">>
D_Cardio == <<"Cardiotonics">>
D_Statins == <<"Statins">>
D_Stent == <<"Stent", " ", "for", " ", "IRA">>

\* a key the form never sends; only a raw input map can hold it
D_Weight == <<"Weight">>

\* model feature names, the values of feature_mapping (lines 139-148)
F_Resp == <<"Respiratory", "_", "support">>
F_Beta == <<"Beta", "_", "blocker">>
F_Stent == <<"Stent", "_", "for", "_", "IRA">>

feature_mapping ==
    (D_Age :> D_Age) @@ (D_Hb :> D_Hb) @@ (D_AST :> D_AST) @@
    (D_Resp :> F_Resp) @@ (D_Beta :> F_Beta) @@ (D_Cardio :> D_Cardio) @@
    (D_Statins :> D_Statins) @@ (D_Stent :> F_Stent)

stent_options == <<"No stent", "Drug-eluting stent (DES)", "Bare-metal stent (BMS)">>

stent_mapping ==
    ("No stent" :> 0) @@ ("Drug-eluting stent (DES)" :> 1) @@
    ("Bare-metal stent (BMS)" :> 2)

\* normal_ranges with the hemoglobin alert bound of 100 for its lower bound
normal_ranges_alert(name) ==
    IF name = <<"Age">> THEN <<18, 120>>
    ELSE IF name = <<"Hb">> THEN <<100, 175>>
    ELSE <<10, 40>>

\* (lower, upper) per monitored display name (lines 132-136)
normal_ranges(name) ==
    IF name = D_Age THEN <<18, 120>>
    ELSE IF name = D_Hb THEN <<130, 175>>
    ELSE <<10, 40>>

(***************************************************************************)
(* Dicts and values.                                                       *)
(***************************************************************************)
Int_(n) == [int |-> n]
Str_(s) == [str |-> s]
isinstance_str(v) == "str" \in DOMAIN v

dict_keys(d) == {d[i][1] : i \in 1..Len(d)}

\* d[k], for k in d
dict_get(d, k) == d[CHOOSE i \in 1..Len(d) : d[i][1] = k][2]

\* d[k] = v: an existing key keeps its place, a new key goes last
dict_set(d, k, v) ==
    IF k \in dict_keys(d)
    THEN [i \in 1..Len(d) |-> IF d[i][1] = k THEN <<k, v>> ELSE d[i]]
    ELSE Append(d, <<k, v>>)

NaN == [num |-> 0, den |-> 0]
isnan(x) == x.den = 0
Float(n) == [num |-> n, den |-> 1]

(***************************************************************************)
(* Artifacts.  The pickles are opaque to the script; the model keeps of    *)
(* each what the script's calls observe.  A classifier is one decision     *)
(* stump over the scaled vector: it refuses a vector of the wrong width,   *)
(* refuses NaN unless allow_nan, and answers left or right of threshold.   *)
(***************************************************************************)
Missing == [kind |-> "missing"]
Undefined == [kind |-> "undefined"]

Classifier(n, nan_ok, j, t, l, r) ==
    [kind |-> "classifier", n_features_in |-> n, allow_nan |-> nan_ok,
     feature |-> j, threshold |-> t, left |-> l, right |-> r]

StandardScaler(mean, scale) ==
    [kind |-> "StandardScaler", n_features_in |-> Len(mean),
     mean |-> mean, scale |-> scale]

\* a pickle that loads, but not as a StandardScaler
MinMaxScaler == [kind |-> "MinMaxScaler"]

TextFile(lines) == [kind |-> "text", lines |-> lines]

\* isinstance(scaler, StandardScaler), line 23
isinstance_StandardScaler(s) == s.kind = "StandardScaler"

\* line 28: one feature name per line of features.txt
read_features(f) ==
    [i \in 1..Len(f.lines) |-> replace_space(strip(f.lines[i]))]

\* the loading block without the isinstance test of lines 23-24
LoadArtifacts_unchecked(d) ==
    IF d.model.kind = "missing"
    THEN [error |-> TRUE, model |-> Undefined, scaler |-> Undefined, features |-> <<>>]
    ELSE IF d.scaler.kind = "missing"
    THEN [error |-> TRUE, model |-> d.model, scaler |-> Undefined, features |-> <<>>]
    ELSE IF d.features.kind = "missing"
    THEN [error |-> TRUE, model |-> d.model, scaler |-> d.scaler, features |-> <<>>]
    ELSE [error |-> FALSE, model |-> d.model, scaler |-> d.scaler,
          features |-> read_features(d.features)]

\* lines 15-32: the globals the block binds before it fails or ends, and
\* whether the except branch ran (st.error, st.stop)
LoadArtifacts(d) ==
    IF d.model.kind = "missing"
    THEN [error |-> TRUE, model |-> Undefined, scaler |-> Undefined, features |-> <<>>]
    ELSE IF d.scaler.kind = "missing"
    THEN [error |-> TRUE, model |-> d.model, scaler |-> Undefined, features |-> <<>>]
    ELSE IF ~isinstance_StandardScaler(d.scaler)
    THEN [error |-> TRUE, model |-> d.model, scaler |-> d.scaler, features |-> <<>>]
    ELSE IF d.features.kind = "missing"
    THEN [error |-> TRUE, model |-> d.model, scaler |-> d.scaler, features |-> <<>>]
    ELSE [error |-> FALSE, model |-> d.model, scaler |-> d.scaler,
          features |-> read_features(d.features)]

(***************************************************************************)
(* The prediction block, lines 173-260.                                    *)
(***************************************************************************)
\* lines 181-191: the value stored for one item; err is the exception raised
normalize_value(display_name, value) ==
    IF display_name = D_Stent
    THEN IF isinstance_str(value) /\ value.str \in DOMAIN stent_mapping
         THEN [err |-> "", val |-> stent_mapping[value.str]]
         ELSE [err |-> "KeyError", val |-> 0]
    ELSE IF isinstance_str(value)
    THEN [err |-> "", val |-> IF value.str = "Yes" THEN 1 ELSE 0]
    ELSE [err |-> "", val |-> value.int]

\* lines 176-191: the loop over inputs.items(), from item i on
RECURSIVE normalize_from(_, _, _)
normalize_from(inp, i, acc) ==
    IF i > Len(inp) THEN [err |-> "", input_data |-> acc]
    ELSE IF inp[i][1] \notin DOMAIN feature_mapping
    THEN [err |-> "KeyError", input_data |-> acc]
    ELSE LET nv == normalize_value(inp[i][1], inp[i][2])
         IN  IF nv.err # ""
             THEN [err |-> nv.err, input_data |-> acc]
             ELSE normalize_from(inp, i + 1,
                                 dict_set(acc, feature_mapping[inp[i][1]], nv.val))

\* a frame filled by position, pd.DataFrame([list(input_data.values())])
DataFrame_positional(data, columns) ==
    [i \in 1..Len(columns) |->
        IF i <= Len(data) THEN [num |-> data[i][2], den |-> 1] ELSE [num |-> 0, den |-> 0]]

\* line 198: pd.DataFrame([input_data], columns=features); a column the
\* dict has no key for is filled with NaN
DataFrame(data, columns) ==
    [i \in 1..Len(columns) |->
        IF columns[i] \in dict_keys(data)
        THEN Float(dict_get(data, columns[i]))
        ELSE NaN]

\* (x - mean) / scale on one cell; NaN stays NaN
scale_cell(x, mean, scale) ==
    IF isnan(x) THEN NaN ELSE [num |-> x.num - mean * x.den, den |-> scale * x.den]

\* transform that standardizes the first three columns only
StandardScaler_transform_subset(s, X) ==
    IF Len(X) # s.n_features_in
    THEN [err |-> "ValueError", X |-> <<>>, self |-> s]
    ELSE [err |-> "",
          X |-> [i \in 1..Len(X) |->
                    IF i <= 3 THEN scale_cell(X[i], s.mean[i], s.scale[i]) ELSE X[i]],
          self |-> s]

\* fit_transform for transform: the scaler is refitted on the single row
StandardScaler_fit_transform(s, X) ==
    IF Len(X) # s.n_features_in
    THEN [err |-> "ValueError", X |-> <<>>, self |-> s]
    ELSE [err |-> "",
          X |-> [i \in 1..Len(X) |-> IF isnan(X[i]) THEN X[i] ELSE [num |-> 0, den |-> 1]],
          self |-> [s EXCEPT !.mean = [i \in 1..Len(X) |-> X[i].num],
                             !.scale = [i \in 1..Len(X) |-> 1]]]

\* line 204: scaler.transform(df).  err when the width is not the fitted
\* width; X the scaled row; self the scaler object after the call
StandardScaler_transform(s, X) ==
    IF Len(X) # s.n_features_in
    THEN [err |-> "ValueError", X |-> <<>>, self |-> s]
    ELSE [err |-> "",
          X |-> [i \in 1..Len(X) |-> scale_cell(X[i], s.mean[i], s.scale[i])],
          self |-> s]

\* line 207: model.predict_proba(df_scaled)[:, 1][0]
predict_proba(m, X) ==
    IF Len(X) # m.n_features_in THEN [err |-> "ValueError", prob |-> -1]
    ELSE IF ~m.allow_nan /\ \E i \in 1..Len(X) : isnan(X[i])
    THEN [err |-> "ValueError", prob |-> -1]
    ELSE LET x == X[m.feature]
         IN  [err |-> "",
              prob |-> IF ~isnan(x) /\ x.num <= m.threshold * x.den
                       THEN m.left ELSE m.right]

\* 0.147 in millionths
THRESHOLD == 147000

\* the comparison with > for >=
RiskStatus_strict(p) == IF p > 147000 THEN "High Risk" ELSE "Low Risk"

\* line 208
RiskStatus(p) == IF p >= THRESHOLD THEN "High Risk" ELSE "Low Risk"

\* line 209
Color(status) == IF status = "High Risk" THEN "#dc3545" ELSE "#28a745"

\* line 212
RiskMessage(status) ==
    IF status = "High Risk"
    THEN "High risk of mortality within 3 years."
    ELSE "Low risk of mortality within 3 years."

AGE_ADVICE_ABOVE == 75

Advice(param, value, text) == [param |-> param, value |-> value, text |-> text]

\* lines 225-239: the messages appended for one abnormal parameter
advice_for(display_name, value, lower, upper) ==
    IF display_name = D_Hb
    THEN IF value < lower
         THEN <<Advice("Hemoglobin", value, "Below normal range (130-175 g/L). Consider anemia workup and iron studies.")>>
         ELSE <<Advice("Hemoglobin", value, "Above normal range (130-175 g/L). Evaluate for polycythemia.")>>
    ELSE IF display_name = D_AST
    THEN IF value > upper
         THEN <<Advice("AST", value, "Elevated above normal (10-40 U/L). May indicate ongoing myocardial injury or liver dysfunction.")>>
         ELSE <<>>
    ELSE IF value > AGE_ADVICE_ABOVE
         THEN <<Advice("Age", value, "Advanced age is an independent risk factor for adverse outcomes in STEMI.")>>
         ELSE <<>>

\* lines 218-239: the loop over inputs.items(), from item i on
RECURSIVE check_abnormal(_, _, _, _)
check_abnormal(inp, i, ab, adv) ==
    IF i > Len(inp) THEN [err |-> "", abnormal_vars |-> ab, advice |-> adv]
    ELSE IF inp[i][1] \in {D_Age, D_Hb, D_AST}
    THEN IF isinstance_str(inp[i][2])
         THEN [err |-> "TypeError", abnormal_vars |-> ab, advice |-> adv]
         ELSE LET value == inp[i][2].int
                  lower == normal_ranges(inp[i][1])[1]
                  upper == normal_ranges(inp[i][1])[2]
              IN  IF value < lower \/ value > upper
                  THEN check_abnormal(inp, i + 1, Append(ab, inp[i][1]),
                                      adv \o advice_for(inp[i][1], value, lower, upper))
                  ELSE check_abnormal(inp, i + 1, ab, adv)
    ELSE check_abnormal(inp, i + 1, ab, adv)

NoProb == -1

\* what a run leaves when the try block raised e after getting as far as r
Raised(r, e) == [r EXCEPT !.err = e]

\* lines 174-260 for the submitted dict inp, with the globals m, s, f
Predict(m, s, f, inp) ==
    LET r0 == [err |-> "", input_data |-> <<>>, debug |-> FALSE, df |-> <<>>,
               df_scaled |-> <<>>, scaler |-> s, model_called |-> FALSE,
               prob |-> NoProb, risk_status |-> "", color |-> "",
               risk_message |-> "", abnormal_vars |-> <<>>, advice |-> <<>>]
        n == normalize_from(inp, 1, <<>>)
        r1 == [r0 EXCEPT !.input_data = n.input_data]
    IN  IF n.err # "" THEN Raised(r1, n.err)
        ELSE
        LET frame == DataFrame(n.input_data, f)
            t == StandardScaler_transform(s, frame)
            r2 == [r1 EXCEPT !.debug = TRUE, !.df = frame, !.scaler = t.self]
        IN  IF t.err # "" THEN Raised(r2, t.err)
            ELSE
            LET p == predict_proba(m, t.X)
                r3 == [r2 EXCEPT !.df_scaled = t.X, !.model_called = TRUE]
            IN  IF p.err # "" THEN Raised(r3, p.err)
                ELSE
                LET status == RiskStatus(p.prob)
                    r4 == [r3 EXCEPT !.prob = p.prob, !.risk_status = status,
                                     !.color = Color(status),
                                     !.risk_message = RiskMessage(status)]
                    a == check_abnormal(inp, 1, <<>>, <<>>)
                IN  IF a.err # "" THEN Raised(r4, a.err)
                    ELSE [r4 EXCEPT !.abnormal_vars = a.abnormal_vars,
                                    !.advice = a.advice]

(***************************************************************************)
(* The artifact files a deployment may hold.                               *)
(***************************************************************************)
Line(name) == Append(name, "\n")

\* features.txt in the order of the form
FeaturesTxt ==
    TextFile(<<Line(D_Age), Line(D_Hb), Line(D_AST), Line(D_Resp), Line(D_Beta),
               Line(D_Cardio), Line(D_Statins), Line(D_Stent)>>)

\* features.txt with the categorical columns first
FeaturesTxtCatFirst ==
    TextFile(<<Line(D_Resp), Line(D_Beta), Line(D_Cardio), Line(D_Statins),
               Line(D_Stent), Line(D_Age), Line(D_Hb), Line(D_AST)>>)

\* features.txt naming a ninth trained feature the form does not collect
FeaturesTxtNine ==
    TextFile(FeaturesTxt.lines \o << <<"Killip", " ", "class", "\n">> >>)

\* a scaler whose last five columns were constant 0 in training
ScalerUnitCats ==
    StandardScaler(<<65, 130, 30, 0, 0, 0, 0, 0>>, <<10, 20, 25, 1, 1, 1, 1, 1>>)

\* a scaler fitted on eight varying columns
ScalerEight ==
    StandardScaler(<<65, 130, 30, 1, 1, 1, 1, 1>>, <<10, 20, 25, 2, 2, 2, 2, 2>>)

\* a scaler fitted on nine columns
ScalerNine ==
    StandardScaler(<<65, 130, 30, 1, 1, 1, 1, 1, 2>>, <<10, 20, 25, 2, 2, 2, 2, 2, 1>>)

\* classifiers trained on eight columns
ClassifierAge == Classifier(8, FALSE, 1, 0, 146999, 147000)
ClassifierLast == Classifier(8, FALSE, 8, 0, 50000, 900000)

\* classifiers trained on nine columns; the first accepts NaN as a missing
\* value, the second refuses it
ClassifierNineNaN == Classifier(9, TRUE, 2, 0, 147001, 0)
ClassifierNine == Classifier(9, FALSE, 9, 0, 0, 1000000)

Disk(m, s, f) == [model |-> m, scaler |-> s, features |-> f]

\* artifacts of one training run: the widths agree
ConsistentDisks ==
    { Disk(m, s, f) : m \in {ClassifierAge, ClassifierLast},
                      s \in {ScalerUnitCats, ScalerEight},
                      f \in {FeaturesTxt, FeaturesTxtCatFirst} }
    \cup
    { Disk(m, ScalerNine, FeaturesTxtNine) : m \in {ClassifierNineNaN, ClassifierNine} }

\* artifacts of different training runs: a width disagrees
MismatchedDisks ==
    { Disk(ClassifierAge, ScalerEight, FeaturesTxtNine),
      Disk(ClassifierAge, ScalerNine, FeaturesTxt),
      Disk(ClassifierNine, ScalerEight, FeaturesTxt) }

\* an artifact is absent, or scaler.pkl holds another kind of scaler
BrokenDisks ==
    { Disk(Missing, ScalerEight, FeaturesTxt),
      Disk(ClassifierAge, Missing, FeaturesTxt),
      Disk(ClassifierAge, MinMaxScaler, FeaturesTxt),
      Disk(ClassifierAge, ScalerEight, Missing) }

Disks == ConsistentDisks \cup MismatchedDisks \cup BrokenDisks

(***************************************************************************)
(* The form, lines 150-170.                                                *)
(***************************************************************************)
Near(t) == (t - Margin)..(t + Margin)

\* st.slider(label, min, max, default): the positions the model submits
AgeSlider == 30..100
HbSlider == 60..200
ASTSlider == 5..600

AgeValues == (Near(75) \cup {30, 65, 80, 100}) \cap AgeSlider
HbValues == (Near(130) \cup Near(175) \cup {60, 90, 140, 200}) \cap HbSlider
ASTValues == (Near(10) \cup Near(40) \cup {5, 20, 30, 250, 600}) \cap ASTSlider

YesNo == {"No", "Yes"}
StentOptions == {stent_options[i] : i \in 1..Len(stent_options)}

\* inputs as lines 153-168 build it
Form(age, hb, ast, resp, beta, cardio, statins, stent) ==
    << <<D_Age, Int_(age)>>, <<D_Hb, Int_(hb)>>, <<D_AST, Int_(ast)>>,
       <<D_Resp, Str_(resp)>>, <<D_Beta, Str_(beta)>>, <<D_Cardio, Str_(cardio)>>,
       <<D_Statins, Str_(statins)>>, <<D_Stent, Str_(stent)>> >>

\* the widgets' defaults
DefaultForm == Form(65, 130, 30, "No", "No", "No", "No", stent_options[1])

\* every sampled slider position with the select boxes at their defaults, and
\* every select box choice with the sliders at defaults, minima and maxima
FormInputs ==
    { Form(a, h, t, "No", "No", "No", "No", stent_options[1]) :
        a \in AgeValues, h \in HbValues, t \in ASTValues }
    \cup
    { Form(n[1], n[2], n[3], c[1], c[2], c[3], c[4], so) :
        n \in {<<65, 130, 30>>, <<30, 60, 5>>, <<100, 200, 600>>},
        c \in YesNo \X YesNo \X YesNo \X YesNo,
        so \in StentOptions }

(***************************************************************************)
(* Raw input maps: what a caller other than the form may hand to the       *)
(* prediction block (spec.md 4.1, score(rawInputs)).                       *)
(***************************************************************************)
RawBases ==
    { DefaultForm,
      Form(80, 90, 250, "Yes", "No", "Yes", "No", stent_options[2]),
      Form(76, 176, 5, "No", "Yes", "No", "Yes", stent_options[3]) }

without(d, k) == SelectSeq(d, LAMBDA it : it[1] # k)

Perturbed(d) ==
    { d,
      dict_set(d, D_Resp, Str_("Maybe")),
      dict_set(d, D_Statins, Str_("yes")),
      dict_set(d, D_Stent, Str_("Unknown")),
      without(d, D_Hb),
      without(d, D_Stent),
      dict_set(d, D_Weight, Int_(70)) }

\* the same items, starting k places later
rotate(d, k) ==
    [i \in 1..Len(d) |-> d[((i - 1 + k) % Len(d)) + 1]]

RawInputs ==
    { rotate(p, k) : p \in UNION { Perturbed(b) : b \in RawBases },
                     k \in 0..(NumOrders - 1) }

(***************************************************************************)
(* The state machine.  Streamlit runs the whole script for every event: a  *)
(* page load, or a press of "Predict Risk".                                *)
(***************************************************************************)
BlankPage ==
    [load_error |-> FALSE, form |-> FALSE, debug |-> FALSE, result |-> FALSE,
     header |-> FALSE, advice |-> <<>>, prediction_error |-> ""]

NoRef == [set |-> FALSE]

Init ==
    /\ disk \in Disks
    /\ model = Undefined
    /\ scaler = Undefined
    /\ features = <<>>
    /\ pc = "load"
    /\ page = BlankPage
    /\ inputs = <<>>
    /\ input_data = <<>>
    /\ df = <<>>
    /\ df_scaled = <<>>
    /\ model_called = FALSE
    /\ prob = NoProb
    /\ risk_status = ""
    /\ color = ""
    /\ risk_message = ""
    /\ abnormal_vars = <<>>
    /\ advice = <<>>
    /\ ref = NoRef
    /\ failed_since = FALSE

\* lines 241-255: what the run renders after a prediction r
Rendered(r) ==
    [load_error |-> FALSE, form |-> TRUE, debug |-> r.debug,
     result |-> r.err = "",
     header |-> r.err = "" /\ r.abnormal_vars # <<>>,
     advice |-> IF r.err = "" /\ r.abnormal_vars # <<>> THEN r.advice ELSE <<>>,
     prediction_error |-> r.err]

\* one run of the script, lines 1-264: submitted is the form button's value
\* and inp the dict the form yields
ScriptRun(submitted, inp) ==
    \* a: the loading block; r: the try block, entered only when the load
    \* succeeded and the button was pressed
    \E a \in {LoadArtifacts(disk)} :
    \E r \in {IF a.error \/ ~submitted THEN [err |-> "not run"]
               ELSE Predict(a.model, a.scaler, a.features, inp)} :
        /\ pc' = "idle"
        /\ model' = a.model
        /\ features' = a.features
        /\ UNCHANGED disk
        /\ IF a.error
           THEN /\ scaler' = a.scaler
                /\ page' = [BlankPage EXCEPT !.load_error = TRUE]
                /\ UNCHANGED run_locals
           ELSE IF ~submitted
           THEN /\ scaler' = a.scaler
                /\ page' = [BlankPage EXCEPT !.form = TRUE]
                /\ inputs' = inp
                /\ UNCHANGED <<input_data, df, df_scaled, model_called, prob,
                               risk_status, color, risk_message, abnormal_vars,
                               advice>>
           ELSE /\ scaler' = r.scaler
                /\ page' = Rendered(r)
                /\ inputs' = inp
                /\ input_data' = r.input_data
                /\ df' = r.df
                /\ df_scaled' = r.df_scaled
                /\ model_called' = r.model_called
                /\ prob' = r.prob
                /\ risk_status' = r.risk_status
                /\ color' = r.color
                /\ risk_message' = r.risk_message
                /\ abnormal_vars' = r.abnormal_vars
                /\ advice' = r.advice

\* an event reaches the server: the previous run's elements and names are
\* dropped and a new run of the script is due
Rerun ==
    /\ pc = "idle"
    /\ \E kind \in {"load", "submit"} :
        /\ kind = "submit" => page.form
        /\ pc' = kind
    /\ page' = BlankPage
    /\ inputs' = <<>>
    /\ input_data' = <<>>
    /\ df' = <<>>
    /\ df_scaled' = <<>>
    /\ model_called' = FALSE
    /\ prob' = NoProb
    /\ risk_status' = ""
    /\ color' = ""
    /\ risk_message' = ""
    /\ abnormal_vars' = <<>>
    /\ advice' = <<>>
    /\ UNCHANGED <<disk, model, scaler, features, ref, failed_since>>

\* the page is opened or refreshed
PageLoad ==
    /\ pc = "load"
    /\ ScriptRun(FALSE, DefaultForm)
    /\ UNCHANGED <<ref, failed_since>>

\* "Predict Risk" is pressed on the form
SubmitForm ==
    /\ pc = "submit"
    /\ \E inp \in FormInputs : ScriptRun(TRUE, inp)
    /\ UNCHANGED <<ref, failed_since>>

\* the prediction block is run on a raw input map; the history variables
\* remember the first successful call and a failure after it
SubmitRaw ==
    /\ pc = "submit"
    /\ \E inp \in RawInputs : ScriptRun(TRUE, inp)
    /\ ref' = IF ~ref.set /\ page'.result
              THEN [set |-> TRUE, inputs |-> inputs', df |-> df',
                    df_scaled |-> df_scaled', prob |-> prob',
                    risk_status |-> risk_status', abnormal_vars |-> abnormal_vars',
                    advice |-> advice', page |-> page']
              ELSE ref
    /\ failed_since' = (failed_since \/ (ref.set /\ ~page'.result))

Next == Rerun \/ PageLoad \/ SubmitForm

Spec == Init /\ [][Next]_vars

NextScore == Rerun \/ PageLoad \/ SubmitRaw

SpecScore == Init /\ [][NextScore]_vars

(***************************************************************************)
(* Properties.                                                             *)
(***************************************************************************)
\* the last run was a submitted run that entered the try block
SubmittedRun == pc = "idle" /\ (page.debug \/ page.prediction_error # "")

\* the last run displayed a prediction
Scored == pc = "idle" /\ page.result

HasInt(name) == name \in dict_keys(inputs) /\ ~isinstance_str(dict_get(inputs, name))
InputInt(name) == dict_get(inputs, name).int

MessagesAbout(param) == SelectSeq(advice, LAMBDA m : m.param = param)

\* C1: whenever a prediction succeeds for a form whose Age is above 75
\* (Age on the slider, 30..100), the advisory list holds the age message
\* quoting that Age.
C1_AgeAdvisory ==
    (Scored /\ HasInt(D_Age) /\ InputInt(D_Age) \in AgeSlider /\ InputInt(D_Age) > 75)
        => \E i \in 1..Len(advice) :
                /\ advice[i].param = "Age"
                /\ advice[i].value = InputInt(D_Age)

\* C9: after a successful prediction with Hb on the slider (60..200), the
\* advisory list holds exactly the anemia message quoting Hb when Hb < 130,
\* exactly the polycythemia message quoting Hb when Hb > 175, and no
\* hemoglobin message when 130 <= Hb <= 175.
C9_HbAdvisory ==
    (Scored /\ HasInt(D_Hb) /\ InputInt(D_Hb) \in HbSlider)
        => LET hb == InputInt(D_Hb)
               msgs == MessagesAbout("Hemoglobin")
           IN  /\ hb < 130 =>
                    msgs = <<Advice("Hemoglobin", hb, "Below normal range (130-175 g/L). Consider anemia workup and iron studies.")>>
               /\ hb > 175 =>
                    msgs = <<Advice("Hemoglobin", hb, "Above normal range (130-175 g/L). Evaluate for polycythemia.")>>
               /\ (130 <= hb /\ hb <= 175) => msgs = <<>>

C9_Witness ==
    /\ Scored
    /\ HasInt(D_Hb)
    /\ InputInt(D_Hb) \in HbSlider
    /\ InputInt(D_Hb) < 130
    /\ InputInt(D_Hb) >= 100
    /\ Len(MessagesAbout("Hemoglobin")) = 1

\* C10: after a successful prediction with Age, Hb and AST on their
\* sliders, the advisory header is displayed only with at least one advisory
\* message under it: abnormal_vars is non-empty exactly when advice is.
C10_HeaderHasAdvice ==
    (/\ Scored
     /\ HasInt(D_Age) /\ InputInt(D_Age) \in AgeSlider
     /\ HasInt(D_Hb) /\ InputInt(D_Hb) \in HbSlider
     /\ HasInt(D_AST) /\ InputInt(D_AST) \in ASTSlider)
        => /\ page.header => page.advice # <<>>
           /\ (abnormal_vars # <<>>) <=> (advice # <<>>)

\* the feature at position i has no key in input_data
ColumnMissing(i) == features[i] \notin dict_keys(input_data)

\* C2: whenever vector assembly is reached with a name of the feature list
\* that input_data has no entry for, the call fails with a missing-feature
\* error, produces and displays no probability, and the classifier is not
\* called with a vector holding an undefined position.  (Any reported error
\* is taken for the missing-feature error.)
C2_MissingFeatureFails ==
    (SubmittedRun /\ page.debug /\ \E i \in 1..Len(features) : ColumnMissing(i))
        => /\ page.prediction_error # ""
           /\ prob = NoProb
           /\ ~page.result
           /\ ~(model_called /\ \E i \in 1..Len(df_scaled) : isnan(df_scaled[i]))

ContinuousFeatures == {D_Age, D_Hb, D_AST}

\* the cell x holds exactly the number n
IsNumber(x, n) == ~isnan(x) /\ x.num = n * x.den

\* C3 as claimed: in every score call that reaches the classifier, a
\* position of a feature other than Age, Hb, AST carries exactly the 0/1/2
\* code of categorical normalization.
C3_CategoricalUnscaled ==
    model_called =>
        \A i \in 1..Len(features) :
            (features[i] \notin ContinuousFeatures /\ ~ColumnMissing(i))
                => IsNumber(df_scaled[i], dict_get(input_data, features[i]))

\* C3 as amended: in every score call that reaches the classifier, every
\* position i, categorical ones included, carries (value - mean[i]) /
\* scale[i] with the loaded scaler's statistics of column i, and a column
\* input_data has no key for stays NaN.
C3_EveryPositionScaled ==
    model_called =>
        /\ Len(df_scaled) = Len(features)
        /\ \A i \in 1..Len(features) :
            IF ColumnMissing(i)
            THEN isnan(df_scaled[i])
            ELSE /\ df_scaled[i].den > 0
                 /\ df_scaled[i].num * scaler.scale[i] =
                        (dict_get(input_data, features[i]) - scaler.mean[i]) * df_scaled[i].den

C3_Witness ==
    /\ model_called
    /\ \E i \in 1..Len(features) :
        /\ features[i] = F_Stent
        /\ ~ColumnMissing(i)
        /\ dict_get(input_data, features[i]) = 2
        /\ ~IsNumber(df_scaled[i], 2)

\* C4: for every probability the classifier returns, risk_status is
\* "High Risk" exactly when the probability is at least 0.147 (147000
\* millionths) and "Low Risk" otherwise, and the colour and the risk message
\* agree with it.
C4_ThresholdLabel ==
    prob # NoProb =>
        /\ risk_status = (IF prob >= 147000 THEN "High Risk" ELSE "Low Risk")
        /\ color = (IF prob >= 147000 THEN "#dc3545" ELSE "#28a745")
        /\ risk_message = (IF prob >= 147000
                           THEN "High risk of mortality within 3 years."
                           ELSE "Low risk of mortality within 3 years.")

C4_Witness == Scored /\ prob = 147000 /\ risk_status = "High Risk"

\* some artifact cannot be loaded from this disk
LoadFails(d) ==
    \/ d.model.kind = "missing"
    \/ d.scaler.kind # "StandardScaler"
    \/ d.features.kind = "missing"

\* C7: when an artifact is unreadable or the scaler is not a
\* StandardScaler, a finished run has reported the load error, offers no
\* form, and no run ever computes or displays a prediction.
C7_NoDegradedMode ==
    LoadFails(disk) =>
        /\ pc = "idle" => page.load_error
        /\ pc # "submit"
        /\ ~page.form
        /\ ~page.debug
        /\ ~page.result
        /\ ~model_called
        /\ prob = NoProb

C7_Witness ==
    /\ pc = "idle"
    /\ disk.scaler.kind = "MinMaxScaler"
    /\ page.load_error
    /\ ~page.form

BinaryFields == {D_Resp, D_Beta, D_Cardio, D_Statins}

\* the labels the field key recognizes
RecognizedLabels(key) == IF key = D_Stent THEN StentOptions ELSE YesNo

\* item i of inputs is a categorical field holding an unrecognized label
UnrecognizedAt(i) ==
    /\ inputs[i][1] \in BinaryFields \cup {D_Stent}
    /\ isinstance_str(inputs[i][2])
    /\ inputs[i][2].str \notin RecognizedLabels(inputs[i][1])

CodeOf(key, value) ==
    IF key = D_Stent
    THEN (CHOOSE j \in 1..Len(stent_options) : stent_options[j] = value.str) - 1
    ELSE IF key \in BinaryFields
    THEN (IF value.str = "Yes" THEN 1 ELSE 0)
    ELSE value.int

\* inputs holds each of the eight fields once, with a value of its domain
ValidInput(inp) ==
    /\ Len(inp) = 8
    /\ dict_keys(inp) = DOMAIN feature_mapping
    /\ \A i \in 1..Len(inp) :
        IF inp[i][1] \in BinaryFields \cup {D_Stent}
        THEN isinstance_str(inp[i][2]) /\ inp[i][2].str \in RecognizedLabels(inp[i][1])
        ELSE ~isinstance_str(inp[i][2])

SameItems(a, b) == Len(a) = Len(b) /\ {a[i] : i \in 1..Len(a)} = {b[i] : i \in 1..Len(b)}

\* C6: for a valid input in any key order, position i of the row handed to
\* the scaler is the normalized value of the input field that maps to
\* features[i]; and a call whose input has the items of an earlier
\* successful call, in whatever order, hands the scaler and the classifier
\* the same vectors.
C6_OrderInvariant ==
    (SubmittedRun /\ page.debug /\ ValidInput(inputs))
        => /\ Len(df) = Len(features)
           /\ \A i \in 1..Len(features) :
                \A k \in 1..Len(inputs) :
                    feature_mapping[inputs[k][1]] = features[i]
                        => df[i] = Float(CodeOf(inputs[k][1], inputs[k][2]))
           /\ (ref.set /\ SameItems(inputs, ref.inputs))
                => df = ref.df /\ df_scaled = ref.df_scaled

C6_Witness ==
    /\ SubmittedRun
    /\ model_called
    /\ ValidInput(inputs)
    /\ ref.set
    /\ SameItems(inputs, ref.inputs)
    /\ inputs # ref.inputs
    /\ features[1] # feature_mapping[inputs[1][1]]

\* C8: a score call leaves the files, the model, the scaler and the feature
\* list as they were; and a successful call made after a failed one yields
\* what the same input yielded before the failure.
C8_CallsLeaveNoTrace ==
    [][ /\ pc = "submit" =>
            /\ disk' = disk
            /\ model' = model
            /\ scaler' = scaler
            /\ features' = features
        /\ (ref'.set /\ failed_since' /\ page'.result /\ inputs' = ref'.inputs) =>
            /\ prob' = ref'.prob
            /\ risk_status' = ref'.risk_status
            /\ df_scaled' = ref'.df_scaled
            /\ abnormal_vars' = ref'.abnormal_vars
            /\ advice' = ref'.advice
            /\ page' = ref'.page ]_vars

C8_Witness ==
    /\ Scored
    /\ ref.set
    /\ failed_since
    /\ inputs = ref.inputs
    /\ scaler = disk.scaler

====
